---- MODULE Spec2Model ----
(***************************************************************************)
(* A model of two streamed outputs of the repository:                      *)
(*                                                                         *)
(*   - the fan-out output broker                                           *)
(*       src/internal/impl/generic/output_broker_fan_out.go                *)
(*   - the resource output                                                 *)
(*       src/internal/old/output/resource.go                               *)
(*                                                                         *)
(* A behaviour constructs one output (outType, the tag of the output's     *)
(* configuration) and then lets its callers (Consume, CloseAsync,          *)
(* WaitForClose), its loop goroutines, the upstream producer and, for the  *)
(* broker, the child outputs interleave step by step.                      *)
(*                                                                         *)
(* Errors are numbers: Nil is no error, and the error child c acks with is *)
(* the number c, so that errors of different children are told apart.      *)
(***************************************************************************)
EXTENDS Integers, Sequences, FiniteSets, TLC

\* Bounds of the model.
MaxOutputs == 2      \* the broker has 1..MaxOutputs children
MaxTx == 2           \* transactions the upstream producer offers
MaxConsume == 2      \* calls of Consume made on the output
MaxWorkers == 2      \* goroutines calling Write on a driver at the same time
MaxParts == 2        \* parts of a batch given to Write
MaxConnect == 2      \* successful Connect calls on a driver
MaxInFlight == 2     \* the largest max_in_flight of an async writer
MaxBatch == 5        \* parts of a batch given to the split processor
MaxSize == 3         \* the largest target size of the split processor

Nil == 0
NilChan == 0
LiveChans == 1..MaxConsume      \* the k-th Consume call brings its own made channel k
Loops == 1..MaxConsume          \* a Consume call starts at most one loop
Txs == 1..MaxTx
Outs == 1..MaxOutputs
OutputTypes == {"fan_out", "resource"}
DriverTypes == {"mqtt", "redis_list", "redis_hash"}
Workers == 1..MaxWorkers
Parts == 1..MaxParts
AsyncTypes == {"kafka", "nanomsg"}
AsyncWorkers == 1..(MaxInFlight + 1)
PipeNames == {"foo", "missing"}

VARIABLES
    outType,          \* which output was constructed
    n,                \* len(o.outputs): the broker's number of children
    transactions,     \* the field transactions (NilChan until bound)
    inputClosed,      \* the upstream closed the bound channel
    nextTx,           \* the next transaction the upstream offers
    consumeCalls,     \* history: the number of Consume calls made
    consumeRes,       \* history: what the latest Consume call returned
    firstBound,       \* history: the field transactions as the first call left it
    closeAtLeisure,   \* shutSig: CloseAtLeisure was requested
    hasClosed,        \* shutSig: ShutdownComplete was called
    chansClosed,      \* the child channels outputTSChans were closed
    panicked,         \* a goroutine panicked: the process is gone
    ctxDone,          \* resource output: r.ctx was cancelled (r.done())
    lpc,              \* per loop goroutine: its position
    lchan,            \* per loop: the channel its select reads
    lts,              \* per loop: the transaction it holds (0: none)
    ltarget,          \* per loop: the child it is sending to
    ackPending,       \* per loop: the local counter ackPending
    owner,            \* per transaction: the loop that consumed it (0: none)
    pendingResponses, \* per transaction: the closure's counter
    cstate,           \* per transaction and child: the copy's position
    cerr,             \* per transaction and child: the error acked (-1: none yet)
    firstErr,         \* history: the first error a child acked with (0: none)
    upCount,          \* history: calls of the upstream ack of a transaction
    upNil,            \* history: some upstream ack carried nil
    upErrs,           \* history: the errors upstream acks carried
    written,          \* resource output: WriteTransaction returned nil
    wfc,              \* history: the latest WaitForClose call and its result
    probe,            \* resource output: mgr.ProbeOutput(conf.Resource)
    constructed,      \* what the constructor returned ("none": not returned yet)
    bound,            \* broker: the children whose Consume the constructor called
                      \* with a channel it made, and that returned nil
    client,           \* driver: the field client (Nil, or the k-th client made)
    open,             \* driver: the clients made and not disconnected or closed
    dialed,           \* driver: the clients made so far
    closeCalled,      \* driver: CloseAsync was called
    closerPending,    \* driver: the goroutine of CloseAsync has not run yet
    wk,               \* driver, per worker: its Write call (position, locals, result)
    inConnect,        \* driver: the Connect calls that hold connMut.Lock
    shaken,           \* driver, history: the clients whose handshake succeeded
    pipes,            \* manager: the names that have a pipe
    maxInFlight,      \* async writer: the configured max_in_flight
    unbounded,        \* async writer: the retries of a batch are unbounded
    aw,               \* async writer, per worker: its position and its transaction
    awConn,           \* async writer: the driver holds a connection
    writeLog,         \* history: the transactions written, in the order of success
    wErrs,            \* history, per transaction: the errors its writes returned
    got,              \* history, per child: the batches it received, in order
    conf,             \* processor: its configuration (format, or target size)
    partStore,        \* processor: the message parts in memory, by reference
    batchStore,       \* processor: the batches in memory, by reference
    msgs,             \* processor: the batches ProcessBatch returned
    procErr           \* processor: the error ProcessBatch returned ("none": not called)

vars == << outType, n, transactions, inputClosed, nextTx,
           consumeCalls, consumeRes, firstBound,
           closeAtLeisure, hasClosed, chansClosed, panicked, ctxDone,
           lpc, lchan, lts, ltarget, ackPending,
           owner, pendingResponses, cstate, cerr, firstErr,
           upCount, upNil, upErrs, written, wfc,
           probe, constructed, bound,
           client, open, dialed, closeCalled, closerPending, wk,
           inConnect, shaken,
           pipes, maxInFlight, unbounded, aw, awConn, writeLog, wErrs,
           got, conf, partStore, batchStore, msgs, procErr >>

shared == << outType, n >>
callVars == << transactions, consumeCalls, consumeRes, firstBound >>
sigVars == << closeAtLeisure, hasClosed, chansClosed, panicked, ctxDone >>
loopVars == << lpc, lchan, lts, ltarget, ackPending >>
txVars == << owner, pendingResponses, cstate, cerr, firstErr >>
upVars == << upCount, upNil, upErrs >>
ctorVars == << probe, constructed, bound >>
connVars == << inConnect, shaken >>
drvVars == << client, open, dialed, closeCalled, closerPending, wk, connVars >>

ipVars == << pipes >>
awVars == << maxInFlight, unbounded, aw, awConn, writeLog, wErrs >>

procVars == << conf, partStore, batchStore, msgs, procErr >>

\* The children's history of receipt and the processors.
sideVars == << got, procVars >>

\* The variables the broker and the loop of the resource output leave alone.
ext == << ctorVars, drvVars, ipVars, awVars >>

\* The variables of the broker and of the resource output, WaitForClose's
\* history apart.
coreVars == << callVars, inputClosed, nextTx, sigVars, loopVars, txVars, upVars,
              written >>

NoWait == [timeout |-> 0, closedAtCall |-> FALSE, afterClose |-> FALSE,
           res |-> "none"]

\* The input edge, the signals, the loops and the histories before any call.
CoreInit ==
    /\ transactions = NilChan
    /\ inputClosed = FALSE
    /\ nextTx = 1
    /\ consumeCalls = 0
    /\ consumeRes = "none"
    /\ firstBound = NilChan
    /\ closeAtLeisure = FALSE
    /\ hasClosed = FALSE
    /\ chansClosed = FALSE
    /\ panicked = FALSE
    /\ ctxDone = FALSE
    /\ lpc = [l \in Loops |-> "none"]
    /\ lchan = [l \in Loops |-> NilChan]
    /\ lts = [l \in Loops |-> 0]
    /\ ltarget = [l \in Loops |-> 0]
    /\ ackPending = [l \in Loops |-> 0]
    /\ owner = [t \in Txs |-> 0]
    /\ pendingResponses = [t \in Txs |-> 0]
    /\ cstate = [t \in Txs |-> [c \in Outs |-> "none"]]
    /\ cerr = [t \in Txs |-> [c \in Outs |-> -1]]
    /\ firstErr = [t \in Txs |-> 0]
    /\ upCount = [t \in Txs |-> 0]
    /\ upNil = [t \in Txs |-> FALSE]
    /\ upErrs = [t \in Txs |-> {}]
    /\ written = [t \in Txs |-> FALSE]
    /\ wfc = NoWait

\* The broker is taken as constructed; the resource output is about to be
\* constructed by NewResource, for a name the manager holds or does not hold.
CtorInit ==
    /\ probe \in BOOLEAN
    /\ (outType # "resource" => probe)
    /\ constructed = IF outType = "resource" THEN "none" ELSE "output"
    /\ bound = IF outType = "fan_out" THEN 1..n ELSE {}

\* No child has received anything.
NoneReceived == got = [c \in Outs |-> << >>]

\* No processor in use.
ProcIdle ==
    /\ conf = [type |-> "none"]
    /\ partStore = << >>
    /\ batchStore = << >>
    /\ msgs = << >>
    /\ procErr = "none"

\* A Write call not made yet.
NoWrite == [pc |-> "idle", client |-> Nil, len |-> 0, part |-> 0, sent |-> 0,
            cmds |-> {}, failed |-> {}, keys |-> << >>, res |-> "none"]

\* A driver as its constructor returns it: no client, nothing called.
DriverIdle ==
    /\ client = Nil
    /\ open = {}
    /\ dialed = 0
    /\ closeCalled = FALSE
    /\ closerPending = FALSE
    /\ wk = [w \in Workers |-> NoWrite]
    /\ inConnect = 0
    /\ shaken = {}

\* A manager with no pipe.
InprocIdle == pipes = {}

\* A worker of the async writer: where it is and the transaction it holds.
NoWorker == [pc |-> "off", ts |-> 0]

\* An async writer not in use.
AsyncIdle ==
    /\ aw = [w \in AsyncWorkers |-> NoWorker]
    /\ awConn = FALSE
    /\ writeLog = << >>
    /\ wErrs = [t \in Txs |-> {}]

Init ==
    /\ outType \in OutputTypes
    /\ n \in Outs
    /\ (outType = "resource" => n = 1)
    /\ CoreInit
    /\ CtorInit
    /\ DriverIdle
    /\ InprocIdle
    /\ maxInFlight = 1
    /\ unbounded = TRUE
    /\ AsyncIdle
    /\ NoneReceived
    /\ ProcIdle

\* The output of type ty is the one constructed, and its process is alive.
Running(ty) == outType = ty /\ constructed = "output" /\ ~panicked

\* The loop goroutine a successful Consume starts: the first one not yet started.
FreeLoop == CHOOSE l \in Loops : lpc[l] = "none" /\ \A k \in Loops : k < l => lpc[k] # "none"

\* The channel a Consume call passes: nil, or the made channel of that call.
CallChan(isNil) == IF isNil THEN NilChan ELSE consumeCalls + 1

(***************************************************************************)
(* The fan-out broker.                                                     *)
(***************************************************************************)

\* newFanOutOutputBroker, one turn of its loop over the children: the
\* channel of the next child is made and the child's Consume is called with
\* it. ok: that Consume returns nil, and the child is bound and started. On
\* an error the constructor returns nil and the error at once; after the
\* last child it returns the broker.
newFanOutOutputBroker(ok) ==
    /\ outType = "fan_out"
    /\ constructed = "none"
    /\ LET i == Cardinality(bound) + 1
       IN IF ok
          THEN /\ bound' = bound \cup {i}
               /\ constructed' = IF i = n THEN "output" ELSE "none"
          ELSE /\ constructed' = "error"
               /\ UNCHANGED bound
    /\ UNCHANGED << shared, sideVars, probe, drvVars, ipVars, awVars, coreVars, wfc >>

\* Consume: refuses when the field transactions is not nil, else binds the
\* channel and starts a loop goroutine.
FanOutConsume(isNil) ==
    /\ Running("fan_out")
    /\ consumeCalls < MaxConsume
    /\ consumeCalls' = consumeCalls + 1
    /\ IF transactions # NilChan
       THEN /\ consumeRes' = "ErrAlreadyStarted"
            /\ UNCHANGED << transactions, lpc >>
       ELSE /\ transactions' = CallChan(isNil)
            /\ lpc' = [lpc EXCEPT ![FreeLoop] = "top"]
            /\ consumeRes' = "nil"
    /\ firstBound' = IF consumeCalls = 0 THEN transactions' ELSE firstBound
    /\ UNCHANGED << shared, sideVars, ext, inputClosed, nextTx, sigVars, lchan, lts, ltarget,
                    ackPending, txVars, upVars, written, wfc >>

\* CloseAsync: shutSig.CloseAtLeisure(), idempotent.
FanOutCloseAsync ==
    /\ Running("fan_out")
    /\ closeAtLeisure' = TRUE
    /\ UNCHANGED << shared, sideVars, ext, callVars, inputClosed, nextTx, hasClosed, chansClosed,
                    panicked, ctxDone, loopVars, txVars, upVars, written, wfc >>

\* The upstream producer closes the channel bound to the output.
UpstreamClose ==
    /\ ~panicked
    /\ transactions # NilChan
    /\ ~inputClosed
    /\ inputClosed' = TRUE
    /\ UNCHANGED << shared, sideVars, ext, callVars, nextTx, sigVars, loopVars, txVars, upVars,
                    written, wfc >>

\* The head of the for loop: the select reads the field transactions.
FanOutLoopEnter(l) ==
    /\ Running("fan_out")
    /\ lpc[l] = "top"
    /\ lpc' = [lpc EXCEPT ![l] = "recv"]
    /\ lchan' = [lchan EXCEPT ![l] = transactions]
    /\ UNCHANGED << shared, sideVars, ext, callVars, inputClosed, nextTx, sigVars, lts, ltarget,
                    ackPending, txVars, upVars, written, wfc >>

\* Mutant: the counter starts one too high.
PendingInitOver(k) == k + 1

\* pendingResponses := int64(len(o.outputTSChans))
PendingInit(k) == k

\* case ts, open = <-o.transactions with open: the loop takes the next
\* transaction, counts it in ackPending and sets up the closure's counter.
FanOutLoopRecv(l) ==
    /\ Running("fan_out")
    /\ lpc[l] = "recv"
    /\ lchan[l] # NilChan
    /\ ~inputClosed
    /\ nextTx <= MaxTx
    /\ nextTx' = nextTx + 1
    /\ owner' = [owner EXCEPT ![nextTx] = l]
    /\ ackPending' = [ackPending EXCEPT ![l] = @ + 1]
    /\ pendingResponses' = [pendingResponses EXCEPT ![nextTx] = PendingInit(n)]
    /\ lts' = [lts EXCEPT ![l] = nextTx]
    /\ ltarget' = [ltarget EXCEPT ![l] = 1]
    /\ lpc' = [lpc EXCEPT ![l] = "send"]
    /\ UNCHANGED << shared, sideVars, ext, callVars, inputClosed, sigVars, lchan, cstate, cerr,
                    firstErr, upVars, written, wfc >>

\* case ts, open = <-o.transactions with !open: return.
FanOutLoopRecvClosed(l) ==
    /\ Running("fan_out")
    /\ lpc[l] = "recv"
    /\ lchan[l] # NilChan
    /\ inputClosed
    /\ lpc' = [lpc EXCEPT ![l] = "wait"]
    /\ UNCHANGED << shared, sideVars, ext, callVars, inputClosed, nextTx, sigVars, lchan, lts,
                    ltarget, ackPending, txVars, upVars, written, wfc >>

\* case <-o.shutSig.CloseAtLeisureChan(): return, in the receiving select and
\* in the sending select alike.
FanOutLoopCloseReq(l) ==
    /\ Running("fan_out")
    /\ lpc[l] \in {"recv", "send"}
    /\ closeAtLeisure
    /\ lpc' = [lpc EXCEPT ![l] = "wait"]
    /\ UNCHANGED << shared, sideVars, ext, callVars, inputClosed, nextTx, sigVars, lchan, lts,
                    ltarget, ackPending, txVars, upVars, written, wfc >>

\* Mutant: the copy is offered to every child from the current one on.
OfferedFrom(l, c) == lpc[l] = "send" /\ c >= ltarget[l]

\* The child the sending select of loop l offers the copy to: the loop walks
\* outputTSChans in index order and blocks on one child at a time.
Offered(l, c) == lpc[l] = "send" /\ c = ltarget[l]

\* The batch of the t-th transaction of the upstream: t parts, each told
\* apart from every other part by its number.
Payload(t) == [i \in 1..t |-> 10 * t + i]

\* Payload.Copy(): a new batch made of a copy of each part of the batch.
Copy(b) == [i \in 1..Len(b) |-> b[i]]

\* Mutant: the message sent has no part.
MsgEmpty(t) == << >>

\* msgCopy := ts.Payload.Copy(), the batch of the transaction sent to a child.
MsgCopy(t) == Copy(Payload(t))

\* Mutant: the range ends after the first child.
HandedToFirst(c, k) == c >= 1

\* for target := range o.outputTSChans ends: child c was the last of k.
HandedToAll(c, k) == c >= k

\* case o.outputTSChans[i] <- ...: child c accepts its copy. A send on a
\* closed channel panics.
FanOutLoopSend(l, c) ==
    /\ Running("fan_out")
    /\ c <= n
    /\ Offered(l, c)
    /\ IF chansClosed
       THEN /\ panicked' = TRUE
            /\ UNCHANGED << lpc, ltarget, cstate, got >>
       ELSE /\ cstate' = [cstate EXCEPT ![lts[l]][c] = "held"]
            /\ got' = [got EXCEPT ![c] = Append(@, MsgCopy(lts[l]))]
            /\ IF HandedToAll(c, n)
               THEN lpc' = [lpc EXCEPT ![l] = "top"] /\ UNCHANGED ltarget
               ELSE ltarget' = [ltarget EXCEPT ![l] = c + 1] /\ UNCHANGED lpc
            /\ UNCHANGED panicked
    /\ UNCHANGED << shared, procVars, ext, callVars, inputClosed, nextTx, closeAtLeisure,
                    hasClosed, chansClosed, ctxDone, lchan, lts, ackPending,
                    owner, pendingResponses, cerr, firstErr, upVars, written, wfc >>

\* The deferred function: it waits while ackPending > 0, woken by an ack or
\* every 100 ms, and stops waiting when CloseAtLeisure is requested; then it
\* closes the child channels (closing a closed channel panics) and calls
\* ShutdownComplete.
FanOutLoopFinish(l) ==
    /\ Running("fan_out")
    /\ lpc[l] = "wait"
    /\ (ackPending[l] <= 0 \/ closeAtLeisure)
    /\ lpc' = [lpc EXCEPT ![l] = "done"]
    /\ IF chansClosed
       THEN panicked' = TRUE /\ UNCHANGED << chansClosed, hasClosed >>
       ELSE chansClosed' = TRUE /\ hasClosed' = TRUE /\ UNCHANGED panicked
    /\ UNCHANGED << shared, sideVars, ext, callVars, inputClosed, nextTx, closeAtLeisure, ctxDone,
                    lchan, lts, ltarget, ackPending, txVars, upVars, written, wfc >>

\* Mutant: the test passes one ack early.
ShouldAckEarly(pending, err) == pending <= 1 \/ err # Nil

\* The test of the ack closure on the counter as decremented and on the error.
ShouldAck(pending, err) == pending = 0 \/ err # Nil

\* A child calls the ack of its copy with nil or with its error:
\* atomic.AddInt64(&pendingResponses, -1) and the test.
FanOutAckBegin(t, c, isErr) ==
    /\ Running("fan_out")
    /\ cstate[t][c] = "held"
    /\ LET err == IF isErr THEN c ELSE Nil
           pending == pendingResponses[t] - 1
       IN /\ pendingResponses' = [pendingResponses EXCEPT ![t] = pending]
          /\ cerr' = [cerr EXCEPT ![t][c] = err]
          /\ firstErr' = [firstErr EXCEPT ![t] = IF @ = 0 THEN err ELSE @]
          /\ cstate' = [cstate EXCEPT ![t][c] =
                            IF ShouldAck(pending, err) THEN "store" ELSE "done"]
    /\ UNCHANGED << shared, sideVars, ext, callVars, inputClosed, nextTx, sigVars, loopVars,
                    owner, upVars, written, wfc >>

\* atomic.StoreInt64(&pendingResponses, 0)
FanOutAckStore(t, c) ==
    /\ Running("fan_out")
    /\ cstate[t][c] = "store"
    /\ pendingResponses' = [pendingResponses EXCEPT ![t] = 0]
    /\ cstate' = [cstate EXCEPT ![t][c] = "ack"]
    /\ UNCHANGED << shared, sideVars, ext, callVars, inputClosed, nextTx, sigVars, loopVars,
                    owner, cerr, firstErr, upVars, written, wfc >>

\* ackErr := ts.Ack(ctx, err): the upstream ack is called with the child's error.
FanOutAckUpstream(t, c) ==
    /\ Running("fan_out")
    /\ cstate[t][c] = "ack"
    /\ upCount' = [upCount EXCEPT ![t] = @ + 1]
    /\ upNil' = [upNil EXCEPT ![t] = @ \/ cerr[t][c] = Nil]
    /\ upErrs' = [upErrs EXCEPT ![t] = IF cerr[t][c] = Nil THEN @ ELSE @ \cup {cerr[t][c]}]
    /\ cstate' = [cstate EXCEPT ![t][c] = "dec"]
    /\ UNCHANGED << shared, sideVars, ext, callVars, inputClosed, nextTx, sigVars, loopVars,
                    owner, pendingResponses, cerr, firstErr, written, wfc >>

\* atomic.AddInt64(&ackPending, -1), then the non-blocking send on
\* ackInterruptChan (it only wakes the deferred wait, which also wakes by
\* itself every 100 ms), and the return.
FanOutAckDone(t, c) ==
    /\ Running("fan_out")
    /\ cstate[t][c] = "dec"
    /\ ackPending' = [ackPending EXCEPT ![owner[t]] = @ - 1]
    /\ cstate' = [cstate EXCEPT ![t][c] = "done"]
    /\ UNCHANGED << shared, sideVars, ext, callVars, inputClosed, nextTx, sigVars, lpc, lchan,
                    lts, ltarget, owner, pendingResponses, cerr, firstErr, upVars,
                    written, wfc >>

\* A select between the closed signal and time.After(timeout): a case that is
\* ready may be chosen. The timer of a zero timeout is ready at once; a
\* positive timeout expires at some later time.
WaitResults(closed, timeout) ==
    (IF closed THEN {"nil"} ELSE {}) \cup
    (IF timeout = 0 \/ ~closed THEN {"ErrTimeout"} ELSE {})

\* WaitForClose(timeout), at the moment it returns.
FanOutWaitForClose(timeout) ==
    /\ Running("fan_out")
    /\ \E r \in WaitResults(hasClosed, timeout) :
          wfc' = [timeout |-> timeout, closedAtCall |-> hasClosed,
                  afterClose |-> closeAtLeisure, res |-> r]
    /\ UNCHANGED << shared, sideVars, ext, callVars, inputClosed, nextTx, sigVars, loopVars,
                    txVars, upVars, written >>

(***************************************************************************)
(* The resource output.                                                    *)
(***************************************************************************)

\* Mutant: the constructor does not probe the manager.
NewResourceUnprobed(exists) == "output"

\* if !mgr.ProbeOutput(conf.Resource) { return nil, error }; else the output
\* with its context, and a nil error.
NewResourceResult(exists) == IF exists THEN "output" ELSE "error"

\* NewResource: it probes the manager for the named output and starts nothing.
NewResource ==
    /\ outType = "resource"
    /\ constructed = "none"
    /\ constructed' = NewResourceResult(probe)
    /\ UNCHANGED << shared, sideVars, probe, bound, drvVars, ipVars, awVars, coreVars, wfc >>

\* Consume: refuses when the field transactions is not nil, else binds the
\* channel and starts a loop goroutine.
ResourceConsume(isNil) ==
    /\ Running("resource")
    /\ consumeCalls < MaxConsume
    /\ consumeCalls' = consumeCalls + 1
    /\ IF transactions # NilChan
       THEN /\ consumeRes' = "ErrAlreadyStarted"
            /\ UNCHANGED << transactions, lpc >>
       ELSE /\ transactions' = CallChan(isNil)
            /\ lpc' = [lpc EXCEPT ![FreeLoop] = "top"]
            /\ consumeRes' = "nil"
    /\ firstBound' = IF consumeCalls = 0 THEN transactions' ELSE firstBound
    /\ UNCHANGED << shared, sideVars, ext, inputClosed, nextTx, sigVars, lchan, lts, ltarget,
                    ackPending, txVars, upVars, written, wfc >>

\* CloseAsync: r.done() cancels r.ctx.
ResourceCloseAsync ==
    /\ Running("resource")
    /\ ctxDone' = TRUE
    /\ UNCHANGED << shared, sideVars, ext, callVars, inputClosed, nextTx, closeAtLeisure,
                    hasClosed, chansClosed, panicked, loopVars, txVars, upVars,
                    written, wfc >>

\* The head of the for loop: with no transaction held the select reads the
\* field transactions, else the held transaction is written again.
ResourceLoopEnter(l) ==
    /\ Running("resource")
    /\ lpc[l] = "top"
    /\ IF lts[l] = 0
       THEN /\ lpc' = [lpc EXCEPT ![l] = "recv"]
            /\ lchan' = [lchan EXCEPT ![l] = transactions]
       ELSE /\ lpc' = [lpc EXCEPT ![l] = "write"]
            /\ UNCHANGED lchan
    /\ UNCHANGED << shared, sideVars, ext, callVars, inputClosed, nextTx, sigVars, lts, ltarget,
                    ackPending, txVars, upVars, written, wfc >>

\* case t, open := <-r.transactions with open: ts = &t.
ResourceLoopRecv(l) ==
    /\ Running("resource")
    /\ lpc[l] = "recv"
    /\ lchan[l] # NilChan
    /\ ~inputClosed
    /\ nextTx <= MaxTx
    /\ nextTx' = nextTx + 1
    /\ owner' = [owner EXCEPT ![nextTx] = l]
    /\ lts' = [lts EXCEPT ![l] = nextTx]
    /\ lpc' = [lpc EXCEPT ![l] = "write"]
    /\ UNCHANGED << shared, sideVars, ext, callVars, inputClosed, sigVars, lchan, ltarget,
                    ackPending, pendingResponses, cstate, cerr, firstErr, upVars,
                    written, wfc >>

\* case t, open := <-r.transactions with !open: r.done() and return.
ResourceLoopRecvClosed(l) ==
    /\ Running("resource")
    /\ lpc[l] = "recv"
    /\ lchan[l] # NilChan
    /\ inputClosed
    /\ ctxDone' = TRUE
    /\ lpc' = [lpc EXCEPT ![l] = "done"]
    /\ UNCHANGED << shared, sideVars, ext, callVars, inputClosed, nextTx, closeAtLeisure,
                    hasClosed, chansClosed, panicked, lchan, lts, ltarget,
                    ackPending, txVars, upVars, written, wfc >>

\* case <-r.ctx.Done(): return, in the receiving select and in the select
\* that waits a second before the retry.
ResourceLoopCtxDone(l) ==
    /\ Running("resource")
    /\ lpc[l] \in {"recv", "sleep"}
    /\ ctxDone
    /\ lpc' = [lpc EXCEPT ![l] = "done"]
    /\ UNCHANGED << shared, sideVars, ext, callVars, inputClosed, nextTx, sigVars, lchan, lts,
                    ltarget, ackPending, txVars, upVars, written, wfc >>

\* Mutant: the transaction is let go of after a failed attempt.
DroppedAfterError(ts) == 0

\* err != nil: ts is left as it is, the loop still holds the transaction.
HeldAfterError(ts) == ts

\* r.mgr.AccessOutput(..., o.WriteTransaction(r.ctx, *ts)): the manager and
\* the resource decide whether it fails. No error: ts = nil; an error: the
\* loop logs it and waits.
ResourceLoopWrite(l, ok) ==
    /\ Running("resource")
    /\ lpc[l] = "write"
    /\ IF ok
       THEN /\ written' = [written EXCEPT ![lts[l]] = TRUE]
            /\ lts' = [lts EXCEPT ![l] = 0]
            /\ lpc' = [lpc EXCEPT ![l] = "top"]
       ELSE /\ lpc' = [lpc EXCEPT ![l] = "sleep"]
            /\ lts' = [lts EXCEPT ![l] = HeldAfterError(@)]
            /\ UNCHANGED written
    /\ UNCHANGED << shared, sideVars, ext, callVars, inputClosed, nextTx, sigVars, lchan, ltarget,
                    ackPending, txVars, upVars, wfc >>

\* case <-time.After(time.Second): the next iteration retries.
ResourceLoopRetry(l) ==
    /\ Running("resource")
    /\ lpc[l] = "sleep"
    /\ lpc' = [lpc EXCEPT ![l] = "top"]
    /\ UNCHANGED << shared, sideVars, ext, callVars, inputClosed, nextTx, sigVars, lchan, lts,
                    ltarget, ackPending, txVars, upVars, written, wfc >>

\* WaitForClose(timeout), at the moment it returns.
ResourceWaitForClose(timeout) ==
    /\ Running("resource")
    /\ \E r \in WaitResults(ctxDone, timeout) :
          wfc' = [timeout |-> timeout, closedAtCall |-> ctxDone,
                  afterClose |-> ctxDone, res |-> r]
    /\ UNCHANGED << shared, sideVars, ext, callVars, inputClosed, nextTx, sigVars, loopVars,
                    txVars, upVars, written >>

(***************************************************************************)
(* The drivers MQTT, RedisList and RedisHash. Workers call Write             *)
(* concurrently; connMut makes the sections it guards atomic, and a Write   *)
(* sends outside of it on the client it read.                               *)
(***************************************************************************)

IsDriver == outType \in DriverTypes /\ constructed = "output" /\ ~panicked

\* The field client while MQTT's Write is storing nil into it under
\* connMut.RLock: the field is an interface value of two words, and a
\* reader that holds the read lock too may see one word of each.
Torn == -1

\* connMut.RLock can be taken: no Connect holds the lock.
CanRLock == inConnect = 0

\* connMut.Lock can be taken: no Connect holds it and no worker is inside
\* the read-locked store.
CanLock == CanRLock /\ \A w \in Workers : wk[w].pc # "clearing"

\* Connect begins: connMut.Lock() is taken and held until the call returns.
\* Each worker may be the caller. The owner of a driver no longer connects
\* once it has closed it.
DriverConnectLock ==
    /\ IsDriver
    /\ CanLock
    /\ ~closeCalled
    /\ dialed < MaxConnect
    /\ inConnect < MaxWorkers
    /\ inConnect' = inConnect + 1
    /\ UNCHANGED << shared, sideVars, coreVars, ctorVars, ipVars, awVars, wfc,
                    client, open, dialed, closeCalled, closerPending, wk, shaken >>

\* The field as Connect leaves it: the new client is stored only after the
\* handshake succeeded (tok.Error() == nil, Ping without error).
Published(ok, cur, new) == IF ok THEN new ELSE cur

\* The rest of Connect, under the lock it took, up to the deferred Unlock.
\* MQTT returns nil at once when the field holds a client; the Redis drivers
\* make a new client whatever the field holds. ok: the handshake
\* (tok.Error() == nil, Ping) succeeds.
DriverConnect(ok) ==
    /\ IsDriver
    /\ inConnect > 0
    /\ dialed < MaxConnect
    /\ inConnect' = inConnect - 1
    /\ IF outType = "mqtt" /\ client # Nil
       THEN UNCHANGED << client, open, dialed, shaken >>
       ELSE LET new == dialed + 1
                f == Published(ok, client, new)
            IN /\ client' = f
               /\ dialed' = IF f = new THEN new ELSE dialed
               /\ open' = IF ok THEN open \cup {new} ELSE open
               /\ shaken' = IF ok THEN shaken \cup {new} ELSE shaken
    /\ UNCHANGED << shared, sideVars, coreVars, ctorVars, ipVars, awVars, wfc,
                    closeCalled, closerPending, wk >>

\* The connection of a client is lost: the driver's connection-lost handler
\* disconnects that client and leaves the field alone.
MQTTConnectionLost ==
    /\ IsDriver
    /\ outType = "mqtt"
    /\ \E c \in open : open' = open \ {c}
    /\ UNCHANGED << shared, sideVars, coreVars, ctorVars, ipVars, awVars, connVars, wfc, client, dialed, closeCalled,
                    closerPending, wk >>

\* What a read of the field under connMut.RLock may give: the field, or,
\* while another worker's store is under way, nil (the word tested against
\* nil is cleared already) or the half-cleared value.
ReadField == IF client = Torn THEN {Nil, Torn} ELSE {client}

\* Write: client := the field, read under connMut.RLock; no client returns
\* ErrNotConnected before anything is sent.
DriverWriteBegin(w, len) ==
    /\ IsDriver
    /\ CanRLock
    /\ wk[w].pc = "idle"
    /\ \E c \in ReadField :
          wk' = [wk EXCEPT ![w] =
                   IF c = Nil
                   THEN [NoWrite EXCEPT !.len = len, !.res = "ErrNotConnected"]
                   ELSE [NoWrite EXCEPT !.pc = "send", !.client = c,
                                        !.len = len, !.part = 1]]
    /\ UNCHANGED << shared, sideVars, coreVars, ctorVars, ipVars, awVars, connVars, wfc, client, open, dialed,
                    closeCalled, closerPending >>

\* What sending one part on client c may give. MQTT: a client that is not
\* connected gives mqtt.ErrNotConnected, a connected one may give another
\* error. RedisHash: walkForHashFields may fail ("error"), HMSet may fail.
\* RedisList: RPush may fail. A closed client sends nothing. Publish on a
\* half-cleared interface value dereferences nil: the process panics.
SendOutcomes(c) ==
    IF c = Torn THEN {"panic"}
    ELSE IF outType = "mqtt"
    THEN IF c \in open THEN {"ok", "error"} ELSE {"ErrNotConnected"}
    ELSE (IF c \in open THEN {"ok"} ELSE {})
         \cup {"fail"}
         \cup (IF outType = "redis_hash" THEN {"error"} ELSE {})

\* The Write call of a worker after the part it is at was handled without a
\* transport failure: the next part, or the return with nil, with the error
\* of a one-part batch, or with a batch error for the parts that failed.
AfterPart(r) ==
    IF r.part < r.len
    THEN [r EXCEPT !.part = @ + 1]
    ELSE [r EXCEPT !.pc = "idle",
                   !.res = IF r.failed = {} THEN "nil"
                           ELSE IF r.len = 1 THEN "error" ELSE "batch_error"]

\* r.keyStr.String(index, msg): the key expression evaluated for the part at
\* index, the name of the list that part belongs to. The parts count from 1
\* here: the index 0 of the code is the part 1.
KeyStr(index) == << "list", index >>

\* RedisList on a batch of one part: key := r.keyStr.String(0, msg), and the
\* RPush of the part to that key is issued.
Pushed(r) ==
    IF outType = "redis_list" THEN [r EXCEPT !.keys = << KeyStr(1) >>] ELSE r

\* RedisList on a batch of several parts: inside msg.Iter, for the part i,
\* key := r.keyStr.String(0, msg), and pipe.RPush(key, p.Get()).
PipelineKeys(len) == [i \in 1..len |-> KeyStr(1)]

\* One part is sent on the client the call read: Publish, HMSet, or the
\* RPush of a one-part batch. A transport failure leads to the clearing of
\* the field.
DriverWriteSend(w, out) ==
    /\ IsDriver
    /\ wk[w].pc = "send"
    /\ (outType = "redis_list" => wk[w].len = 1)
    /\ out \in SendOutcomes(wk[w].client)
    /\ panicked' = (out = "panic")
    /\ wk' = [wk EXCEPT ![w] = Pushed(
                 CASE out = "ok" -> AfterPart([@ EXCEPT !.sent = @ + 1])
                   [] out = "error" -> AfterPart([@ EXCEPT !.failed = @ \cup {wk[w].part}])
                   [] out = "panic" -> @
                   [] OTHER -> [@ EXCEPT !.pc = "clear"])]
    /\ UNCHANGED << shared, sideVars, callVars, inputClosed, nextTx, closeAtLeisure,
                    hasClosed, chansClosed, ctxDone, loopVars, txVars, upVars,
                    written, ctorVars, ipVars, awVars, connVars, wfc, client, open, dialed,
                    closeCalled, closerPending >>

\* Mutant: the field keeps its client.
FieldKept(cur) == cur

\* r.client = nil, m.client = nil
FieldCleared(cur) == Nil

\* disconnect(), and the body of MQTT's closing goroutine, under
\* connMut.Lock: the client the field holds is closed and the field cleared.
Disconnect ==
    IF client # Nil
    THEN /\ open' = open \ {client}
         /\ client' = FieldCleared(client)
    ELSE UNCHANGED << client, open >>

\* After a transport failure, MQTT: connMut.RLock(), and the store of nil
\* into the field begins (a field that is nil already does not change).
MQTTWriteClearField(w) ==
    /\ IsDriver
    /\ outType = "mqtt"
    /\ CanRLock
    /\ wk[w].pc = "clear"
    /\ client' = IF client = Nil THEN Nil ELSE Torn
    /\ wk' = [wk EXCEPT ![w] = [@ EXCEPT !.pc = "clearing"]]
    /\ UNCHANGED << shared, sideVars, coreVars, ctorVars, ipVars, awVars, connVars, wfc, open, dialed, closeCalled,
                    closerPending >>

\* After a transport failure: MQTT ends its store and unlocks, the Redis
\* drivers call disconnect(); the call returns ErrNotConnected.
DriverWriteClear(w) ==
    /\ IsDriver
    /\ IF outType = "mqtt"
       THEN /\ wk[w].pc = "clearing"
            /\ client' = FieldCleared(client)
            /\ UNCHANGED open
       ELSE /\ wk[w].pc = "clear"
            /\ CanLock
            /\ Disconnect
    /\ wk' = [wk EXCEPT ![w] = [@ EXCEPT !.pc = "idle", !.res = "ErrNotConnected"]]
    /\ UNCHANGED << shared, sideVars, coreVars, ctorVars, ipVars, awVars, connVars, wfc, dialed, closeCalled,
                    closerPending >>

\* Mutant: only the first failed command is marked.
RECURSIVE MarkFailedFirst(_, _, _)
MarkFailedFirst(cmders, i, batchErr) ==
    IF i > Len(cmders) THEN batchErr
    ELSE MarkFailedFirst(cmders, i + 1,
             IF cmders[i] # Nil /\ batchErr = {} THEN {i} ELSE batchErr)

\* for i, res := range cmders: a command with an error has its index marked
\* as failed in the batch error (the empty set: batchErr stays nil). The
\* indices count from 1 here.
RECURSIVE MarkFailed(_, _, _)
MarkFailed(cmders, i, batchErr) ==
    IF i > Len(cmders) THEN batchErr
    ELSE MarkFailed(cmders, i + 1,
             IF cmders[i] # Nil THEN batchErr \cup {i} ELSE batchErr)

\* The results of a pipeline of k commands of which those in F failed.
Cmders(k, F) == [i \in 1..k |-> IF i \in F THEN 1 ELSE Nil]

\* RedisList on a batch of several parts: one pipeline with an RPush per
\* part. Exec fails as a whole (disconnect, ErrNotConnected), or gives a
\* result per command, and the failed ones make the batch error.
RedisListExec(w, execOk, F) ==
    /\ IsDriver
    /\ outType = "redis_list"
    /\ wk[w].pc = "send"
    /\ wk[w].len > 1
    /\ F \subseteq 1..wk[w].len
    /\ execOk => wk[w].client \in open
    /\ wk' = [wk EXCEPT ![w] =
                 IF ~execOk
                 THEN [@ EXCEPT !.pc = "clear",
                                !.keys = PipelineKeys(wk[w].len)]
                 ELSE LET batchErr == MarkFailed(Cmders(wk[w].len, F), 1, {})
                      IN [@ EXCEPT !.pc = "idle",
                                   !.keys = PipelineKeys(wk[w].len),
                                   !.cmds = F,
                                   !.failed = batchErr,
                                   !.sent = wk[w].len - Cardinality(F),
                                   !.res = IF batchErr = {} THEN "nil"
                                           ELSE "batch_error"]]
    /\ UNCHANGED << shared, sideVars, coreVars, ctorVars, ipVars, awVars, connVars, wfc, client, open, dialed,
                    closeCalled, closerPending >>

\* CloseAsync: RedisHash disconnects before it returns; MQTT and RedisList
\* start a goroutine that will.
DriverCloseAsync ==
    /\ IsDriver
    /\ ~closeCalled
    /\ closeCalled' = TRUE
    /\ IF outType = "redis_hash"
       THEN CanLock /\ Disconnect /\ UNCHANGED closerPending
       ELSE closerPending' = TRUE /\ UNCHANGED << client, open >>
    /\ UNCHANGED << shared, sideVars, coreVars, ctorVars, ipVars, awVars, connVars, wfc, dialed, wk >>

\* The goroutine CloseAsync started runs.
DriverCloser ==
    /\ IsDriver
    /\ CanLock
    /\ closerPending
    /\ closerPending' = FALSE
    /\ Disconnect
    /\ UNCHANGED << shared, sideVars, coreVars, ctorVars, ipVars, awVars, connVars, wfc, dialed, closeCalled, wk >>

\* WaitForClose: return nil.
DriverWaitForClose(timeout) ==
    /\ IsDriver
    /\ wfc' = [timeout |-> timeout, closedAtCall |-> client = Nil,
               afterClose |-> closeCalled, res |-> "nil"]
    /\ UNCHANGED << shared, sideVars, coreVars, ctorVars, ipVars, awVars, drvVars >>

(***************************************************************************)
(* The inproc output and the manager's pipes. Their code is outside the    *)
(* sources at hand: TestInproc drives them, and the output follows the     *)
(* contract of a streamed output (Consume binds the edge and starts the    *)
(* worker, edges are unbuffered, close is in two phases).                  *)
(***************************************************************************)

\* conf.Inproc = "foo"
PipeName == "foo"

\* mgr.GetPipe(name): the pipe of the name, or ErrPipeNotFound.
GetPipe(name) == IF name \in pipes THEN "chan" ELSE "ErrPipeNotFound"

\* Consume: refuses when the output was started, else binds the channel and
\* starts the worker.
InprocConsume(isNil) ==
    /\ Running("inproc")
    /\ consumeCalls < MaxConsume
    /\ consumeCalls' = consumeCalls + 1
    /\ IF transactions # NilChan
       THEN /\ consumeRes' = "ErrAlreadyStarted"
            /\ UNCHANGED << transactions, lpc >>
       ELSE /\ transactions' = CallChan(isNil)
            /\ lpc' = [lpc EXCEPT ![FreeLoop] = "start"]
            /\ consumeRes' = "nil"
    /\ firstBound' = IF consumeCalls = 0 THEN transactions' ELSE firstBound
    /\ UNCHANGED << shared, sideVars, ext, inputClosed, nextTx, sigVars, lchan, lts, ltarget,
                    ackPending, txVars, upVars, written, wfc >>

\* CloseAsync: the close at leisure is requested.
InprocCloseAsync ==
    /\ Running("inproc")
    /\ closeAtLeisure' = TRUE
    /\ UNCHANGED << shared, sideVars, ext, callVars, inputClosed, nextTx, hasClosed,
                    chansClosed, panicked, ctxDone, loopVars, txVars, upVars,
                    written, wfc >>

\* The worker starts: it gives the manager its pipe under the output's name.
InprocLoopStart(l) ==
    /\ Running("inproc")
    /\ lpc[l] = "start"
    /\ pipes' = pipes \cup {PipeName}
    /\ lpc' = [lpc EXCEPT ![l] = "recv"]
    /\ lchan' = [lchan EXCEPT ![l] = transactions]
    /\ UNCHANGED << shared, sideVars, ctorVars, drvVars, awVars, callVars, inputClosed,
                    nextTx, sigVars, lts, ltarget, ackPending, txVars, upVars,
                    written, wfc >>

\* The worker accepts a transaction from the input edge.
InprocLoopRecv(l) ==
    /\ Running("inproc")
    /\ lpc[l] = "recv"
    /\ lchan[l] # NilChan
    /\ ~inputClosed
    /\ nextTx <= MaxTx
    /\ nextTx' = nextTx + 1
    /\ owner' = [owner EXCEPT ![nextTx] = l]
    /\ lts' = [lts EXCEPT ![l] = nextTx]
    /\ lpc' = [lpc EXCEPT ![l] = "send"]
    /\ UNCHANGED << shared, sideVars, ext, callVars, inputClosed, sigVars, lchan, ltarget,
                    ackPending, pendingResponses, cstate, cerr, firstErr, upVars,
                    written, wfc >>

\* The worker stops between two transactions: the input edge was closed, or
\* the close at leisure was requested.
InprocLoopStop(l) ==
    /\ Running("inproc")
    /\ lpc[l] = "recv"
    /\ (lchan[l] # NilChan /\ inputClosed) \/ closeAtLeisure
    /\ lpc' = [lpc EXCEPT ![l] = "exit"]
    /\ UNCHANGED << shared, sideVars, ext, callVars, inputClosed, nextTx, sigVars, lchan, lts,
                    ltarget, ackPending, txVars, upVars, written, wfc >>

\* Mutant: the transaction is dropped.
PipeDrop(pos) == pos

\* The transaction the worker holds after the pipe's reader took it.
PipeHandOff(pos) == "held"

\* The reader of the pipe takes the transaction the worker holds: the edge
\* is unbuffered, the send and the receive are one step.
InprocLoopSend(l) ==
    /\ Running("inproc")
    /\ lpc[l] = "send"
    /\ cstate' = [cstate EXCEPT ![lts[l]][1] = PipeHandOff(@)]
    /\ lts' = [lts EXCEPT ![l] = 0]
    /\ lpc' = [lpc EXCEPT ![l] = "recv"]
    /\ UNCHANGED << shared, sideVars, ext, callVars, inputClosed, nextTx, sigVars, lchan,
                    ltarget, ackPending, owner, pendingResponses, cerr, firstErr,
                    upVars, written, wfc >>

\* Mutant: the pipe stays with the manager.
PipeKept(ps, name) == ps

\* The manager's pipes after the output took back the pipe of its name.
UnsetPipe(ps, name) == ps \ {name}

\* The worker leaves: it takes its pipe back from the manager and closes it.
InprocLoopExit(l) ==
    /\ Running("inproc")
    /\ lpc[l] = "exit"
    /\ pipes' = UnsetPipe(pipes, PipeName)
    /\ chansClosed' = TRUE
    /\ lpc' = [lpc EXCEPT ![l] = "closed"]
    /\ UNCHANGED << shared, sideVars, ctorVars, drvVars, awVars, callVars, inputClosed,
                    nextTx, closeAtLeisure, hasClosed, panicked, ctxDone, lchan,
                    lts, ltarget, ackPending, txVars, upVars, written, wfc >>

\* The worker has left: the output signals that it closed.
InprocLoopComplete(l) ==
    /\ Running("inproc")
    /\ lpc[l] = "closed"
    /\ hasClosed' = TRUE
    /\ lpc' = [lpc EXCEPT ![l] = "done"]
    /\ UNCHANGED << shared, sideVars, ext, callVars, inputClosed, nextTx, closeAtLeisure,
                    chansClosed, panicked, ctxDone, lchan, lts, ltarget,
                    ackPending, txVars, upVars, written, wfc >>

\* WaitForClose(timeout), at the moment it returns.
InprocWaitForClose(timeout) ==
    /\ Running("inproc")
    /\ \E r \in WaitResults(hasClosed, timeout) :
          wfc' = [timeout |-> timeout, closedAtCall |-> hasClosed,
                  afterClose |-> closeAtLeisure, res |-> r]
    /\ UNCHANGED << shared, sideVars, ext, coreVars >>

(***************************************************************************)
(* The async writer that NewKafka and NewNanomsg wrap their driver in. Its  *)
(* code is outside the sources at hand; it is modelled from the spec's      *)
(* section on the async writer: max_in_flight workers pull from the input   *)
(* edge, a worker connects before the first write and after ErrNotConnected *)
(* and retries the batch it holds, and acks nil after the write succeeds.   *)
(***************************************************************************)

IsAsync == outType \in AsyncTypes /\ constructed = "output" /\ ~panicked

\* Mutant: one worker more than max_in_flight.
WorkersOver(m) == 1..(m + 1)

\* The workers Consume starts: NewAsyncWriter(..., MaxInFlight, ...).
WorkersStarted(m) == 1..m

\* Consume: refuses when the output was started, else binds the channel and
\* starts the workers.
AsyncConsume(isNil) ==
    /\ IsAsync
    /\ consumeCalls < MaxConsume
    /\ consumeCalls' = consumeCalls + 1
    /\ IF transactions # NilChan
       THEN /\ consumeRes' = "ErrAlreadyStarted"
            /\ UNCHANGED << transactions, aw >>
       ELSE /\ transactions' = CallChan(isNil)
            /\ aw' = [w \in AsyncWorkers |->
                        IF w \in WorkersStarted(maxInFlight)
                        THEN [pc |-> "connect", ts |-> 0] ELSE aw[w]]
            /\ consumeRes' = "nil"
    /\ firstBound' = IF consumeCalls = 0 THEN transactions' ELSE firstBound
    /\ UNCHANGED << shared, sideVars, ctorVars, drvVars, ipVars, maxInFlight, unbounded,
                    awConn, writeLog, wErrs, inputClosed, nextTx, sigVars,
                    loopVars, txVars, upVars, written, wfc >>

\* CloseAsync: the close at leisure is requested.
AsyncCloseAsync ==
    /\ IsAsync
    /\ closeAtLeisure' = TRUE
    /\ UNCHANGED << shared, sideVars, ext, callVars, inputClosed, nextTx, hasClosed,
                    chansClosed, panicked, ctxDone, loopVars, txVars, upVars,
                    written, wfc >>

\* A worker calls Connect, before its first write and after ErrNotConnected;
\* a Connect that fails is tried again.
AsyncConnect(w, ok) ==
    /\ IsAsync
    /\ aw[w].pc = "connect"
    /\ IF ok
       THEN /\ awConn' = TRUE
            /\ aw' = [aw EXCEPT ![w].pc = IF aw[w].ts = 0 THEN "recv" ELSE "write"]
       ELSE UNCHANGED << awConn, aw >>
    /\ UNCHANGED << shared, sideVars, ctorVars, drvVars, ipVars, maxInFlight, unbounded,
                    writeLog, wErrs, coreVars, wfc >>

\* A worker pulls a transaction from the input edge.
AsyncRecv(w) ==
    /\ IsAsync
    /\ aw[w].pc = "recv"
    /\ transactions # NilChan
    /\ ~inputClosed
    /\ nextTx <= MaxTx
    /\ nextTx' = nextTx + 1
    /\ owner' = [owner EXCEPT ![nextTx] = w]
    /\ aw' = [aw EXCEPT ![w] = [pc |-> "write", ts |-> nextTx]]
    /\ UNCHANGED << shared, sideVars, ctorVars, drvVars, ipVars, maxInFlight, unbounded,
                    awConn, writeLog, wErrs, callVars, inputClosed, sigVars,
                    loopVars, pendingResponses, cstate, cerr, firstErr, upVars,
                    written, wfc >>

\* A worker that holds no transaction leaves: the input edge was closed, or
\* the close at leisure was requested.
AsyncStop(w) ==
    /\ IsAsync
    /\ \/ aw[w].pc = "recv" /\ ((transactions # NilChan /\ inputClosed) \/ closeAtLeisure)
       \/ aw[w].pc = "connect" /\ aw[w].ts = 0 /\ closeAtLeisure
    /\ aw' = [aw EXCEPT ![w].pc = "done"]
    /\ UNCHANGED << shared, sideVars, ctorVars, drvVars, ipVars, maxInFlight, unbounded,
                    awConn, writeLog, wErrs, coreVars, wfc >>

\* What Write of the driver may return: ErrNotConnected without a
\* connection; with one, nil, ErrNotConnected (the connection is lost) or
\* another error.
WriteResults(conn) ==
    IF conn THEN {"nil", "ErrNotConnected", "error"} ELSE {"ErrNotConnected"}

\* Mutant: the batch is given up although the retries are unbounded.
RetryOrDrop(unb) == {"write", "nack"}

\* Where a worker goes after an error that is not ErrNotConnected: it
\* writes the batch again, or, with a bounded budget, may give it up.
RetryPcs(unb) == IF unb THEN {"write"} ELSE {"write", "nack"}

\* Mutant: the worker lets go of the batch.
HeldDropped(ts) == 0

\* The batch a worker holds after its Write failed: the same batch.
HeldAfterFailure(ts) == ts

\* A worker writes the batch it holds.
AsyncWrite(w, res) ==
    /\ IsAsync
    /\ aw[w].pc = "write"
    /\ res \in WriteResults(awConn)
    /\ LET t == aw[w].ts
       IN CASE res = "nil" ->
                 /\ writeLog' = Append(writeLog, t)
                 /\ aw' = [aw EXCEPT ![w].pc = "ack"]
                 /\ UNCHANGED << awConn, wErrs >>
            [] res = "ErrNotConnected" ->
                 /\ awConn' = FALSE
                 /\ wErrs' = [wErrs EXCEPT ![t] = @ \cup {res}]
                 /\ aw' = [aw EXCEPT ![w] = [pc |-> "connect",
                                             ts |-> HeldAfterFailure(t)]]
                 /\ UNCHANGED writeLog
            [] OTHER ->
                 /\ wErrs' = [wErrs EXCEPT ![t] = @ \cup {res}]
                 /\ \E to \in RetryPcs(unbounded) :
                       aw' = [aw EXCEPT ![w] = [pc |-> to,
                                                ts |-> HeldAfterFailure(t)]]
                 /\ UNCHANGED << awConn, writeLog >>
    /\ UNCHANGED << shared, sideVars, ctorVars, drvVars, ipVars, maxInFlight, unbounded,
                    coreVars, wfc >>

\* After a Write that succeeded the worker acks the transaction with nil;
\* a batch given up is acked with the error.
AsyncAck(w) ==
    /\ IsAsync
    /\ aw[w].pc \in {"ack", "nack"}
    /\ LET t == aw[w].ts
       IN /\ upCount' = [upCount EXCEPT ![t] = @ + 1]
          /\ upNil' = [upNil EXCEPT ![t] = @ \/ aw[w].pc = "ack"]
          /\ upErrs' = [upErrs EXCEPT ![t] = IF aw[w].pc = "ack" THEN @ ELSE @ \cup {1}]
    /\ aw' = [aw EXCEPT ![w] = [pc |-> "recv", ts |-> 0]]
    /\ UNCHANGED << shared, sideVars, ctorVars, drvVars, ipVars, maxInFlight, unbounded,
                    awConn, writeLog, wErrs, callVars, inputClosed, nextTx,
                    sigVars, loopVars, txVars, written, wfc >>

\* The last worker has left: the output signals that it closed.
AsyncShutdown ==
    /\ IsAsync
    /\ ~hasClosed
    /\ \E w \in AsyncWorkers : aw[w].pc = "done"
    /\ \A w \in AsyncWorkers : aw[w].pc \in {"off", "done"}
    /\ hasClosed' = TRUE
    /\ UNCHANGED << shared, sideVars, ext, callVars, inputClosed, nextTx, closeAtLeisure,
                    chansClosed, panicked, ctxDone, loopVars, txVars, upVars,
                    written, wfc >>

\* WaitForClose(timeout), at the moment it returns.
AsyncWaitForClose(timeout) ==
    /\ IsAsync
    /\ \E r \in WaitResults(hasClosed, timeout) :
          wfc' = [timeout |-> timeout, closedAtCall |-> hasClosed,
                  afterClose |-> closeAtLeisure, res |-> r]
    /\ UNCHANGED << shared, sideVars, ext, coreVars >>

(***************************************************************************)
(* The archive processor. Parts and batches are held by reference, as the   *)
(* code holds them by pointer: partStore[r] is the part behind reference r, *)
(* batchStore[b] the references of the parts of batch b. A part is its      *)
(* content (a sequence of bytes), its metadata and its collapsed count.     *)
(* The batch ProcessBatch is given is batch 1.                              *)
(***************************************************************************)

Formats == {"tar", "zip", "binary", "lines", "json_array", "concatenate"}

\* The contents of a part: the bytes of "1", a JSON document, or of "x", none.
Contents == {<<49>>, <<120>>}
Metas == {"a", "b"}
PartValues == [data : Contents, meta : Metas, count : {1}]

\* msg, the batch given to ProcessBatch.
Msg == 1

\* The parts of batch b, in order.
PartsOf(ps, b) == [i \in 1..Len(b) |-> ps[b[i]]]

\* bytes.Join(tmpParts, sep), and buf.Write of every part with no separator.
RECURSIVE Join(_, _, _)
Join(vals, sep, i) ==
    IF i > Len(vals) THEN << >>
    ELSE (IF i > 1 THEN sep ELSE << >>) \o vals[i].data \o Join(vals, sep, i + 1)

\* message.ToBytes after the count of parts: the length of each part and
\* its content.
RECURSIVE Blob(_, _)
Blob(vals, i) ==
    IF i > Len(vals) THEN << >>
    ELSE <<Len(vals[i].data)>> \o vals[i].data \o Blob(vals, i + 1)

\* part.JSON(): the content parses as a JSON document.
IsJSON(d) == d = <<49>>

\* The error of the archiver: json_array fails on a part that is no JSON.
ArchiveError(format, vals) ==
    IF format = "json_array" /\ \E i \in 1..Len(vals) : ~IsJSON(vals[i].data)
    THEN "error" ELSE "nil"

\* The content of the archive: tar and zip keep a file per part, named by
\* the path expression at the part's index, with the part's size; binary,
\* lines and concatenate join the contents; json_array writes the array of
\* the documents, "[", the documents between ",", "]".
ArchiveData(format, vals) ==
    CASE format \in {"tar", "zip"} ->
             [i \in 1..Len(vals) |->
                 [name |-> i - 1, size |-> Len(vals[i].data), body |-> vals[i].data]]
      [] format = "binary" -> <<Len(vals)>> \o Blob(vals, 1)
      [] format = "lines" -> Join(vals, <<10>>, 1)
      [] format = "concatenate" -> Join(vals, << >>, 1)
      [] OTHER -> <<91>> \o Join(vals, <<44>>, 1) \o <<93>>

\* Mutant: the empty batch goes on to the archiver.
EmptyMissed(len) == FALSE

\* if msg.Len() == 0
EmptyBatch(len) == len = 0

\* Mutant: the last part of the batch is the one copied.
GetLast(b) == b[Len(b)]

\* msg.Get(0)
GetFirst(b) == b[1]

\* Mutant: the archive counts for one message.
SizeOne(b) == 1

\* msg.Len(), the count given to batch.WithCollapsedCount
OriginalSize(b) == Len(b)

\* part.Copy(): a new part with the content, the metadata and the context of
\* the part behind r; the reference of the copy is the next free one.
CopyPart(ps, r) == Append(ps, ps[r])

\* newPart.Set(data), newPart.SetJSON(array): the content of the part behind r.
SetData(ps, r, data) == [ps EXCEPT ![r].data = data]

\* batch.WithCollapsedCount(newPart, count)
WithCollapsedCount(ps, r, count) == [ps EXCEPT ![r].count = count]

\* ProcessBatch: nil, nil for an empty batch; else newMsg := msg.Copy(), the
\* archiver copies the first part and sets the archive as its content, and
\* newMsg, holding that part alone with the collapsed count, is returned. An
\* archiver given an empty batch indexes past the end of it.
ProcessBatch ==
    /\ outType = "archive"
    /\ procErr = "none"
    /\ LET b == batchStore[Msg]
           vals == PartsOf(partStore, b)
           newMsg == Len(batchStore) + 1
           newPart == Len(partStore) + 1
       IN IF EmptyBatch(Len(b))
          THEN /\ procErr' = "nil"
               /\ UNCHANGED << partStore, batchStore, msgs >>
          ELSE IF Len(b) = 0
          THEN /\ procErr' = "panic"
               /\ batchStore' = Append(batchStore, b)
               /\ UNCHANGED << partStore, msgs >>
          ELSE IF ArchiveError(conf.format, vals) # "nil"
          THEN /\ procErr' = ArchiveError(conf.format, vals)
               /\ batchStore' = Append(batchStore, b)
               /\ UNCHANGED << partStore, msgs >>
          ELSE /\ procErr' = "nil"
               /\ partStore' =
                     WithCollapsedCount(
                         SetData(CopyPart(partStore, GetFirst(b)), newPart,
                                 ArchiveData(conf.format, vals)),
                         newPart, OriginalSize(b))
               /\ batchStore' = Append(batchStore, <<newPart>>)
               /\ msgs' = <<newMsg>>
    /\ UNCHANGED << shared, got, conf, ext, coreVars, wfc >>

(***************************************************************************)
(* The split processor. Its code (lib/processor/split.go) is outside the    *)
(* sources at hand; its documentation is modelled: with byte_size 0 the     *)
(* parts of a batch are dealt, in order, into batches of the target size,   *)
(* and the remainder is sent as a batch of its own.                         *)
(***************************************************************************)

\* The target sizes: split.size, 1 by default.
Sizes == 1..MaxSize

\* Mutant: a batch is closed one part late.
FullLate(next, size) == Len(next) > size

\* The batch under construction has reached the target size.
Full(next, size) == Len(next) >= size

\* The parts b[i..] dealt out: next is the batch under construction, out the
\* batches closed so far; a batch left under construction at the end is the
\* remainder.
RECURSIVE SplitFrom(_, _, _, _, _)
SplitFrom(b, size, i, next, out) ==
    IF i > Len(b)
    THEN IF Len(next) > 0 THEN Append(out, next) ELSE out
    ELSE IF Full(next, size)
    THEN SplitFrom(b, size, i + 1, <<b[i]>>, Append(out, next))
    ELSE SplitFrom(b, size, i + 1, Append(next, b[i]), out)

\* The batches the split processor makes of batch b.
Split(b, size) == SplitFrom(b, size, 1, << >>, << >>)

\* ProcessBatch of the split processor: the batches made are new batches of
\* the parts given, and their references are returned.
SplitProcessBatch ==
    /\ outType = "split"
    /\ procErr = "none"
    /\ LET made == Split(batchStore[Msg], conf.size)
       IN /\ batchStore' = batchStore \o made
          /\ msgs' = [i \in 1..Len(made) |-> Len(batchStore) + i]
    /\ procErr' = "nil"
    /\ UNCHANGED << shared, got, conf, partStore, ext, coreVars, wfc >>

(***************************************************************************)
(* The specifications.                                                     *)
(***************************************************************************)

\* The timeouts given to WaitForClose: zero, and 1 for any positive one.
Timeouts == {0, 1}

\* The callers, the upstream closing its channel, and the loops starting and
\* stopping; the callers pass Consume a nil channel only when nils allows it.
Control(nils) ==
    \/ \E b \in nils : FanOutConsume(b)
    \/ FanOutCloseAsync
    \/ UpstreamClose
    \/ \E l \in Loops : FanOutLoopEnter(l)
    \/ \E l \in Loops : FanOutLoopRecvClosed(l)
    \/ \E l \in Loops : FanOutLoopCloseReq(l)
    \/ \E l \in Loops : FanOutLoopFinish(l)
    \/ NewResource
    \/ \E b \in nils : ResourceConsume(b)
    \/ ResourceCloseAsync
    \/ \E l \in Loops : ResourceLoopEnter(l)
    \/ \E l \in Loops : ResourceLoopRecvClosed(l)
    \/ \E l \in Loops : ResourceLoopCtxDone(l)

\* The transactions: received from the upstream, handed on, acked.
Flow ==
    \/ \E l \in Loops : FanOutLoopRecv(l)
    \/ \E l \in Loops, c \in Outs : FanOutLoopSend(l, c)
    \/ \E t \in Txs, c \in Outs, e \in BOOLEAN : FanOutAckBegin(t, c, e)
    \/ \E t \in Txs, c \in Outs : FanOutAckStore(t, c)
    \/ \E t \in Txs, c \in Outs : FanOutAckUpstream(t, c)
    \/ \E t \in Txs, c \in Outs : FanOutAckDone(t, c)
    \/ \E l \in Loops : ResourceLoopRecv(l)
    \/ \E l \in Loops, ok \in BOOLEAN : ResourceLoopWrite(l, ok)
    \/ \E l \in Loops : ResourceLoopRetry(l)

\* A caller's WaitForClose returns.
Wait ==
    \/ \E d \in Timeouts : FanOutWaitForClose(d)
    \/ \E d \in Timeouts : ResourceWaitForClose(d)

\* The output as the engine drives it: Consume is given a made channel.
Next == Control({FALSE}) \/ Flow \/ Wait

Spec == Init /\ [][Next]_vars

\* The same without the callers of WaitForClose, which change nothing the
\* output reads.
NextRun == Control({FALSE}) \/ Flow

RunSpec == Init /\ [][NextRun]_vars

\* The output as any caller may drive it, Consume given a nil channel
\* included, while the upstream offers no transaction.
NextAny == Control(BOOLEAN) \/ Wait

AnySpec == Init /\ [][NextAny]_vars

\* The broker with no close requested: the callers call Consume only.
NextOpen ==
    \/ FanOutConsume(FALSE)
    \/ UpstreamClose
    \/ \E l \in Loops : FanOutLoopEnter(l)
    \/ \E l \in Loops : FanOutLoopRecv(l)
    \/ \E l \in Loops : FanOutLoopRecvClosed(l)
    \/ \E l \in Loops, c \in Outs : FanOutLoopSend(l, c)
    \/ \E l \in Loops : FanOutLoopFinish(l)
    \/ \E t \in Txs, c \in Outs, e \in BOOLEAN : FanOutAckBegin(t, c, e)
    \/ \E t \in Txs, c \in Outs : FanOutAckStore(t, c)
    \/ \E t \in Txs, c \in Outs : FanOutAckUpstream(t, c)
    \/ \E t \in Txs, c \in Outs : FanOutAckDone(t, c)

\* Every goroutine of the broker is scheduled again and again, every child
\* accepts the copy it is offered and every child acks the copy it holds.
Fairness ==
    /\ \A l \in Loops : WF_vars(FanOutLoopEnter(l))
    /\ \A l \in Loops : WF_vars(\E c \in Outs : FanOutLoopSend(l, c))
    /\ \A t \in Txs, c \in Outs :
          /\ WF_vars(\E e \in BOOLEAN : FanOutAckBegin(t, c, e))
          /\ WF_vars(FanOutAckStore(t, c))
          /\ WF_vars(FanOutAckUpstream(t, c))
          /\ WF_vars(FanOutAckDone(t, c))

FairSpec == Init /\ [][NextOpen]_vars /\ Fairness

\* The broker from its constructor on, with children whose Consume may
\* refuse, and then as FairSpec drives it, without the fairness.
BrokerCtorInit ==
    /\ outType = "fan_out"
    /\ n \in Outs
    /\ CoreInit
    /\ probe = TRUE
    /\ constructed = "none"
    /\ bound = {}
    /\ DriverIdle
    /\ InprocIdle
    /\ maxInFlight = 1
    /\ unbounded = TRUE
    /\ AsyncIdle
    /\ NoneReceived
    /\ ProcIdle

BrokerCtorNext ==
    \/ \E ok \in BOOLEAN : newFanOutOutputBroker(ok)
    \/ NextOpen

BrokerCtorSpec == BrokerCtorInit /\ [][BrokerCtorNext]_vars

\* The resource output alone, from its constructor on.
ResourceInit == Init /\ outType = "resource"

ResourceNext ==
    \/ NewResource
    \/ ResourceConsume(FALSE)
    \/ ResourceCloseAsync
    \/ UpstreamClose
    \/ \E l \in Loops : ResourceLoopEnter(l)
    \/ \E l \in Loops : ResourceLoopRecv(l)
    \/ \E l \in Loops : ResourceLoopRecvClosed(l)
    \/ \E l \in Loops : ResourceLoopCtxDone(l)
    \/ \E l \in Loops, ok \in BOOLEAN : ResourceLoopWrite(l, ok)
    \/ \E l \in Loops : ResourceLoopRetry(l)
    \/ \E d \in Timeouts : ResourceWaitForClose(d)

ResourceSpec == ResourceInit /\ [][ResourceNext]_vars

\* A driver alone, with its workers and its owner.
DriverInit ==
    /\ outType \in DriverTypes
    /\ n = 1
    /\ CoreInit
    /\ CtorInit
    /\ DriverIdle
    /\ InprocIdle
    /\ maxInFlight = 1
    /\ unbounded = TRUE
    /\ AsyncIdle
    /\ NoneReceived
    /\ ProcIdle

DriverNext ==
    \/ DriverConnectLock
    \/ \E ok \in BOOLEAN : DriverConnect(ok)
    \/ MQTTConnectionLost
    \/ \E w \in Workers, len \in Parts : DriverWriteBegin(w, len)
    \/ \E w \in Workers, out \in {"ok", "error", "fail", "ErrNotConnected", "panic"} :
          DriverWriteSend(w, out)
    \/ \E w \in Workers : MQTTWriteClearField(w)
    \/ \E w \in Workers : DriverWriteClear(w)
    \/ \E w \in Workers, execOk \in BOOLEAN, F \in SUBSET Parts :
          RedisListExec(w, execOk, F)
    \/ DriverCloseAsync
    \/ DriverCloser
    \/ \E d \in Timeouts : DriverWaitForClose(d)

DriverSpec == DriverInit /\ [][DriverNext]_vars

\* The inproc output alone, with its callers, the upstream and the reader
\* of its pipe.
InprocInit ==
    /\ outType = "inproc"
    /\ n = 1
    /\ CoreInit
    /\ CtorInit
    /\ DriverIdle
    /\ InprocIdle
    /\ maxInFlight = 1
    /\ unbounded = TRUE
    /\ AsyncIdle
    /\ NoneReceived
    /\ ProcIdle

InprocNext ==
    \/ InprocConsume(FALSE)
    \/ InprocCloseAsync
    \/ UpstreamClose
    \/ \E l \in Loops : InprocLoopStart(l)
    \/ \E l \in Loops : InprocLoopRecv(l)
    \/ \E l \in Loops : InprocLoopStop(l)
    \/ \E l \in Loops : InprocLoopSend(l)
    \/ \E l \in Loops : InprocLoopExit(l)
    \/ \E l \in Loops : InprocLoopComplete(l)
    \/ \E d \in Timeouts : InprocWaitForClose(d)

\* The worker is scheduled again and again, and the reader of the pipe takes
\* what it is offered.
InprocFairness ==
    \A l \in Loops :
        /\ WF_vars(InprocLoopStart(l))
        /\ WF_vars(InprocLoopSend(l))
        /\ WF_vars(InprocLoopExit(l))
        /\ WF_vars(InprocLoopComplete(l))

InprocSpec == InprocInit /\ [][InprocNext]_vars /\ InprocFairness

\* An output made of an async writer over a driver: kafka with its retry
\* budget bounded or not, nanomsg.
AsyncInit ==
    /\ outType \in AsyncTypes
    /\ n = 1
    /\ CoreInit
    /\ CtorInit
    /\ DriverIdle
    /\ InprocIdle
    /\ maxInFlight \in 1..MaxInFlight
    /\ unbounded \in BOOLEAN
    /\ (outType = "nanomsg" => unbounded)
    /\ AsyncIdle
    /\ NoneReceived
    /\ ProcIdle

AsyncNext ==
    \/ AsyncConsume(FALSE)
    \/ AsyncCloseAsync
    \/ UpstreamClose
    \/ \E w \in AsyncWorkers, ok \in BOOLEAN : AsyncConnect(w, ok)
    \/ \E w \in AsyncWorkers : AsyncRecv(w)
    \/ \E w \in AsyncWorkers : AsyncStop(w)
    \/ \E w \in AsyncWorkers, res \in {"nil", "ErrNotConnected", "error"} :
          AsyncWrite(w, res)
    \/ \E w \in AsyncWorkers : AsyncAck(w)
    \/ AsyncShutdown
    \/ \E d \in Timeouts : AsyncWaitForClose(d)

AsyncSpec == AsyncInit /\ [][AsyncNext]_vars

\* The archive processor alone: a format, and a batch of up to MaxParts parts.
ArchiveInit ==
    /\ outType = "archive"
    /\ n = 1
    /\ CoreInit
    /\ CtorInit
    /\ DriverIdle
    /\ InprocIdle
    /\ maxInFlight = 1
    /\ unbounded = TRUE
    /\ AsyncIdle
    /\ NoneReceived
    /\ conf \in [type : {"archive"}, format : Formats]
    /\ \E k \in 0..MaxParts :
          /\ partStore \in [1..k -> PartValues]
          /\ batchStore = << [i \in 1..k |-> i] >>
    /\ msgs = << >>
    /\ procErr = "none"

ArchiveSpec == ArchiveInit /\ [][ProcessBatch]_vars

\* The split processor alone: a target size, and a batch of up to MaxBatch
\* parts.
SplitInit ==
    /\ outType = "split"
    /\ n = 1
    /\ CoreInit
    /\ CtorInit
    /\ DriverIdle
    /\ InprocIdle
    /\ maxInFlight = 1
    /\ unbounded = TRUE
    /\ AsyncIdle
    /\ NoneReceived
    /\ conf \in [type : {"split"}, size : Sizes, byte_size : {0}]
    /\ \E k \in 0..MaxBatch :
          /\ partStore \in [1..k -> PartValues]
          /\ batchStore = << [i \in 1..k |-> i] >>
    /\ msgs = << >>
    /\ procErr = "none"

SplitSpec == SplitInit /\ [][SplitProcessBatch]_vars

(***************************************************************************)
(* The claims.                                                             *)
(***************************************************************************)

Children == 1..n
Consumed(t) == outType = "fan_out" /\ owner[t] # 0
Received(t, c) == cstate[t][c] # "none"
ChildAcked(t, c) == cerr[t][c] # -1
LoopsStarted == Cardinality({l \in Loops : lpc[l] # "none"})

\* C1: the upstream ack of a transaction the broker consumed is called at
\* most once, whatever the children ack with and however their acks interleave.
C1_UpstreamAckAtMostOnce ==
    \A t \in Txs : Consumed(t) => upCount[t] <= 1

\* C2: an upstream ack carries nil only if every child acked its copy with
\* nil, and carries an error only if some child acked with an error.
C2_UpstreamNilIffAllNil ==
    \A t \in Txs : Consumed(t) =>
        /\ upNil[t] => \A c \in Children : cerr[t][c] = Nil
        /\ upErrs[t] # {} => \E c \in Children : cerr[t][c] \notin {-1, Nil}

C4_ConsumedEventuallyAcked ==
    \A t \in Txs : Consumed(t) ~> (upCount[t] > 0)

\* C4: a transaction a broker with several children consumed was acked
\* upstream with no close requested.
C4_Witness ==
    \E t \in Txs : Consumed(t) /\ n >= 2 /\ upCount[t] > 0 /\ ~closeAtLeisure

\* C5: a transaction that some but not all children have received when the
\* close request stops the loop has exactly one upstream ack once the children
\* that received it have acked nil.
C5_PartialHandoffAcked ==
    \A t \in Txs :
        ( /\ Consumed(t)
          /\ closeAtLeisure
          /\ lpc[owner[t]] \in {"wait", "done"}
          /\ \E c \in Children : Received(t, c)
          /\ \E c \in Children : ~Received(t, c)
          /\ \A c \in Children :
                Received(t, c) => (cstate[t][c] = "done" /\ cerr[t][c] = Nil) )
        => upCount[t] = 1

\* C6: after CloseAsync, WaitForClose returns nil only when every transaction
\* the broker consumed has had its upstream ack.
C6_WaitNilOnlyWhenAcked ==
    (outType = "fan_out" /\ wfc.res = "nil" /\ wfc.afterClose) =>
        \A t \in Txs : Consumed(t) => upCount[t] > 0

\* C7 as stated: the sends to the children are concurrent: while the loop is
\* handing out a transaction, every child that has not accepted its copy yet
\* is being offered it.
C7_ConcurrentOffers ==
    \A l \in Loops, c \in Children :
        (outType = "fan_out" /\ lpc[l] = "send" /\ ~Received(lts[l], c))
            => Offered(l, c)

\* C7 as amended: the sends are sequential in index order: a child has
\* received its copy of a transaction only if every child before it has.
C7_SequentialOffers ==
    \A t \in Txs, c \in Children :
        (Consumed(t) /\ Received(t, c)) =>
            \A i \in Children : i < c => Received(t, i)

\* C7: a child after the first has received its copy.
C7_Witness ==
    \E t \in Txs, c \in Children :
        Consumed(t) /\ c >= 2 /\ Received(t, c)

\* C8: an upstream ack that carries an error carries the error of the first
\* child ack with an error.
C8_FirstErrorWins ==
    \A t \in Txs : Consumed(t) => upErrs[t] \subseteq {firstErr[t]}

\* C9: a Consume call after an earlier one returns ErrAlreadyStarted, leaves
\* the field transactions as the first call left it, and starts no second loop.
C9_SecondConsumeRefused ==
    consumeCalls >= 2 =>
        /\ consumeRes = "ErrAlreadyStarted"
        /\ transactions = firstBound
        /\ LoopsStarted <= 1

\* C10: WaitForClose(0) on an output that has closed returns nil.
C10_WaitZeroOnClosedIsNil ==
    (wfc.res # "none" /\ wfc.timeout = 0 /\ wfc.closedAtCall) => wfc.res = "nil"

\* The loop of the resource output has exited, or was never started: it is
\* not in its select, not inside AccessOutput/WriteTransaction, not waiting
\* to retry.
ResourceQuiescent == \A l \in Loops : lpc[l] \in {"none", "done"}

\* C11: a WaitForClose of the resource output returns nil only when the output
\* is quiescent: its loop has exited and no write issued by it is in progress.
C11_WaitNilOnlyWhenQuiescent ==
    [][ (outType = "resource" /\ wfc' # wfc /\ wfc'.res = "nil")
            => ResourceQuiescent ]_vars

\* C20: NewResource returns an error and no output exactly when the manager
\* does not hold the named output; on that path no loop is started and no
\* transaction is taken from the upstream.
C20_NewResourceProbes ==
    (outType = "resource" /\ constructed # "none") =>
        /\ (constructed = "error") <=> ~probe
        /\ (constructed = "output") <=> probe
        /\ constructed = "error" =>
              /\ \A l \in Loops : lpc[l] = "none"
              /\ \A t \in Txs : owner[t] = 0
              /\ transactions = NilChan

\* C20: NewResource was called for a name the manager does not hold.
C20_Witness ==
    outType = "resource" /\ ~probe /\ constructed = "error"

\* C12: when WaitForClose of an MQTT, RedisList or RedisHash driver returns
\* nil after CloseAsync was called, the client has been disconnected and the
\* field client is nil.
C12_WaitNilMeansDisconnected ==
    (outType \in DriverTypes /\ wfc.res = "nil" /\ wfc.afterClose)
        => wfc.closedAtCall

\* C18: a RedisList write of a batch of several parts whose pipeline executed
\* returns a batch error that marks exactly the parts whose command failed,
\* and nil when no command failed.
C18_BatchErrorMarksFailed ==
    \A w \in Workers :
        ( /\ outType = "redis_list"
          /\ wk[w].pc = "idle"
          /\ wk[w].len > 1
          /\ wk[w].res \in {"nil", "batch_error"} )
        => /\ wk[w].failed = wk[w].cmds
           /\ (wk[w].res = "nil") <=> (wk[w].cmds = {})

\* C18: a pipeline in which the second command failed and the first did not.
C18_Witness ==
    \E w \in Workers :
        /\ outType = "redis_list"
        /\ wk[w].pc = "idle"
        /\ wk[w].res = "batch_error"
        /\ wk[w].cmds = {2}

\* What C19 asks of every step of a driver.
NotConnectedStep ==
    outType \in DriverTypes =>
        /\ \A w \in Workers :
              (wk[w].pc = "idle" /\ wk'[w] # wk[w] /\ client = Nil)
                  => /\ wk'[w].pc = "idle"
                     /\ wk'[w].res = "ErrNotConnected"
                     /\ wk'[w].sent = 0
        /\ \A w \in Workers :
              ( /\ wk[w].pc # "idle"
                /\ wk'[w].pc = "idle"
                /\ wk'[w].res = "ErrNotConnected" )
                  => client' = Nil
        /\ (client = Nil /\ client' # Nil)
              => (dialed' = dialed + 1 /\ client' = dialed')

\* C19: a Write issued while the field holds no client returns
\* ErrNotConnected and sends nothing; a Write that returns ErrNotConnected
\* after a send failed leaves the field nil; and the field gets a client
\* again only by a Connect that succeeds.
C19_NotConnectedUntilConnect == [][NotConnectedStep]_vars

\* C19: a Write returned ErrNotConnected after a send on the client it read
\* failed, and the field is nil.
C19_Witness ==
    \E w \in Workers :
        /\ outType \in DriverTypes
        /\ wk[w].pc = "idle"
        /\ wk[w].res = "ErrNotConnected"
        /\ wk[w].client # Nil
        /\ client = Nil

\* The inproc output is running: its worker has given the manager the pipe
\* and has not taken it back.
InprocRunning == \E l \in Loops : lpc[l] \in {"recv", "send", "exit"}

Writes(t) == Cardinality({i \in DOMAIN writeLog : writeLog[i] = t})

\* The transactions taken from the input edge and not acked upstream yet.
InFlight == {t \in Txs : owner[t] # 0 /\ upCount[t] = 0}

\* C15: a batch whose Write returned ErrNotConnected (and no other error)
\* stays with its worker, which reads no other transaction until it is
\* acked; it is written successfully at most once and acked at most once,
\* with nil and after that write; and every transaction taken from the
\* input is held by a worker or acked.
C15_ReconnectRetriesSameBatch ==
    outType \in AsyncTypes =>
        /\ \A t \in Txs : wErrs[t] = {"ErrNotConnected"} =>
              /\ Writes(t) <= 1
              /\ upCount[t] <= 1
              /\ upCount[t] = 1 => (upNil[t] /\ upErrs[t] = {} /\ Writes(t) = 1)
              /\ upCount[t] = 0 => aw[owner[t]].ts = t
              /\ (upCount[t] = 0 /\ Writes(t) = 1) => aw[owner[t]].pc = "ack"
        /\ nextTx - 1 = Cardinality({t \in Txs : upCount[t] > 0})
                          + Cardinality({w \in AsyncWorkers : aw[w].ts # 0})

\* C15: a batch was acked with nil after a Write of it returned
\* ErrNotConnected.
C15_Witness ==
    \E t \in Txs :
        /\ outType \in AsyncTypes
        /\ wErrs[t] = {"ErrNotConnected"}
        /\ upCount[t] = 1
        /\ upNil[t]

C17_WrittenInOrder ==
    (outType = "kafka" /\ maxInFlight = 1 /\ unbounded) =>
        \A i \in DOMAIN writeLog : writeLog[i] = i

\* C17: two batches were written, the first one after a failed write.
C17_Witness ==
    /\ outType = "kafka"
    /\ maxInFlight = 1
    /\ unbounded
    /\ Len(writeLog) = 2
    /\ wErrs[1] # {}

\* C21: every transaction the loop of the resource output received is acked
\* (written with no error): once the loop has returned, no transaction it
\* received is left without its ack, the one it held when CloseAsync was
\* called included.
C21_ReceivedIsAcked ==
    \A t \in Txs :
        (outType = "resource" /\ owner[t] # 0 /\ lpc[owner[t]] = "done")
            => written[t]

\* C22: the broker receives the next transaction from the upstream only after
\* every child has accepted its copy of the one before: while a child has not
\* accepted its copy of a transaction, no later transaction is consumed.
C22_BackPressure ==
    \A t \in Txs, u \in Txs :
        (Consumed(t) /\ Consumed(u) /\ t < u)
            => \A c \in Children : Received(t, c)

\* C22: a broker with several children consumed a second transaction.
C22_Witness ==
    outType = "fan_out" /\ n >= 2 /\ Consumed(1) /\ Consumed(2)

\* What C23 asks of every state: child c has received, in the order of their
\* consumption and once each, copies of the first transactions consumed, each
\* with the parts of its original.
ReceivedInOrder ==
    \A c \in Outs :
        (outType = "fan_out" /\ c <= n) =>
            \A i \in 1..Len(got[c]) :
                /\ i \in Txs
                /\ Consumed(i)
                /\ got[c][i] = Payload(i)

\* C23: with no close requested each child receives exactly one copy of every
\* transaction the broker consumed, with the parts of the original, and in
\* the order the broker consumed the originals.
C23_EachChildGetsEachInOrder ==
    /\ []ReceivedInOrder
    /\ \A t \in Txs :
          Consumed(t) ~> (\A c \in Outs : c <= n => Len(got[c]) >= t)

\* C23: both children of a broker have received their copies of two
\* transactions.
C23_Witness ==
    /\ outType = "fan_out"
    /\ n >= 2
    /\ \A c \in Children : Len(got[c]) = 2

\* The children of the broker that have not acked their copy of t yet.
NotYetAcked(t) == {c \in Children : ~ChildAcked(t, c)}

\* An ack closure of t has passed its test and is on its way to, or past,
\* the call of the upstream ack.
AckUnderWay(t) == \E c \in Children : cstate[t][c] \in {"store", "ack"}

\* C28: the pending-response counter of a consumed transaction equals the
\* number of children that have not acked their copy yet, stays within 0..N,
\* and the upstream is acked exactly when the counter reaches zero.
C28_CounterCountsUnacked ==
    \A t \in Txs : Consumed(t) =>
        /\ pendingResponses[t] = Cardinality(NotYetAcked(t))
        /\ pendingResponses[t] \in 0..n
        /\ upCount[t] > 0 => pendingResponses[t] = 0
        /\ pendingResponses[t] = 0 => (upCount[t] > 0 \/ AckUnderWay(t))

\* The transactions loop l consumed whose upstream ack has not been called.
UnackedOf(l) == {t \in Txs : owner[t] = l /\ upCount[t] = 0}

\* An ack closure of a transaction of loop l has called the upstream ack and
\* has not decremented ackPending yet.
DecrementDue(l) ==
    {t \in Txs : owner[t] = l /\ \E c \in Children : cstate[t][c] = "dec"}

\* C29: with the upstream channel closed and no CloseAsync, the broker closes
\* its child channels and signals that it closed only after every consumed
\* transaction was acked upstream; ackPending is the number of consumed
\* transactions not yet acked upstream (counting those whose closure is
\* between the ack and its decrement) and is never below zero.
C29_ShutdownAfterAllAcked ==
    (outType = "fan_out" /\ ~closeAtLeisure) =>
        /\ (chansClosed \/ hasClosed) =>
              \A t \in Txs : Consumed(t) => upCount[t] > 0
        /\ \A l \in Loops :
              /\ ackPending[l] >= 0
              /\ ackPending[l] = Cardinality(UnackedOf(l) \cup DecrementDue(l))

\* The loop l of the resource output holds a transaction that has not been
\* written with a nil error.
Holding(l) == lpc[l] \in {"top", "write", "sleep"} /\ lts[l] # 0

\* What C30 asks of every step: a loop that holds a transaction keeps it
\* until it is written with a nil error, going on to attempt it again, or
\* returns because the output was closed.
RetrySameStep ==
    \A l \in Loops :
        (outType = "resource" /\ Holding(l) /\ ~written'[lts[l]]) =>
            \/ lts'[l] = lts[l] /\ Holding(l)'
            \/ lts'[l] = lts[l] /\ lpc'[l] = "done" /\ ctxDone

\* What C30 asks of every state: a transaction was received only after every
\* transaction received before it was written with a nil error.
ReceivedAfterWritten ==
    \A t \in Txs, u \in Txs :
        (outType = "resource" /\ owner[t] # 0 /\ owner[u] # 0 /\ t < u)
            => written[t]

\* C30: between receiving a transaction and the first attempt that writes it
\* with no error the loop of the resource output receives no other one, and
\* a failed attempt is followed by another attempt of the same transaction,
\* never by a skip or a drop, until success or close: the transactions reach
\* the resource in the order they were received.
C30_RetryInOrder == []ReceivedAfterWritten /\ [][RetrySameStep]_vars

\* C30: the first transaction was written, and the second one is about to be
\* attempted again after an attempt that failed.
C30_Witness ==
    \E l \in Loops :
        /\ outType = "resource"
        /\ lpc[l] = "top"
        /\ lts[l] = 2
        /\ written[1]
        /\ ~ctxDone

\* The parts of the batch given to the archive processor.
Given == batchStore[Msg]

\* ProcessBatch of the archive processor has returned.
Archived == outType = "archive" /\ procErr # "none"

\* C24: ProcessBatch of the archive processor on a batch of size 0 returns no
\* batch and a nil error, for every format.
C24_EmptyBatchGivesNothing ==
    (Archived /\ Len(Given) = 0) => (msgs = << >> /\ procErr = "nil")

\* C24: ProcessBatch has returned for an empty batch and the format tar.
C24_Witness ==
    Archived /\ Len(Given) = 0 /\ conf.format = "tar"

\* C25: ProcessBatch on a batch of n >= 1 parts whose archiving succeeds
\* returns one batch of one part, and that part carries the collapsed count n.
C25_OnePartCollapsedCount ==
    (Archived /\ Len(Given) >= 1 /\ procErr = "nil") =>
        /\ Len(msgs) = 1
        /\ Len(batchStore[msgs[1]]) = 1
        /\ partStore[batchStore[msgs[1]][1]].count = Len(Given)

\* C25: a batch of two parts was archived as zip.
C25_Witness ==
    Archived /\ Len(Given) = 2 /\ procErr = "nil" /\ conf.format = "zip"

\* What C26 asks of the step in which ProcessBatch returns an archive.
ArchiveFrameStep ==
    (outType = "archive" /\ procErr = "none" /\ procErr' = "nil" /\ Len(Given) >= 1) =>
        /\ batchStore'[Msg] = batchStore[Msg]
        /\ \A r \in DOMAIN partStore : partStore'[r] = partStore[r]
        /\ Len(msgs') = 1
        /\ \A r \in 1..Len(batchStore'[msgs'[1]]) :
              partStore'[batchStore'[msgs'[1]][r]].meta = partStore[Given[1]].meta

\* C26: for every format the archived part has the metadata of the first
\* part of the batch given, and ProcessBatch leaves the parts of that batch,
\* content and metadata, as they were.
C26_FirstMetadataInputKept == [][ArchiveFrameStep]_vars

\* C26: a batch whose two parts differ in metadata was archived as lines.
C26_Witness ==
    /\ Archived
    /\ procErr = "nil"
    /\ conf.format = "lines"
    /\ Len(Given) = 2
    /\ partStore[Given[1]].meta # partStore[Given[2]].meta

\* The parts of the batches bs[i..], one batch after the other.
RECURSIVE Flat(_, _)
Flat(bs, i) == IF i > Len(bs) THEN << >> ELSE bs[i] \o Flat(bs, i + 1)

\* The batches the split processor returned.
Emitted == [i \in 1..Len(msgs) |-> batchStore[msgs[i]]]

\* C27: split with target size s >= 1 and byte_size 0 on a batch of n parts
\* emits ceil(n/s) batches, every batch but the last of s parts, the last of
\* the remainder (n mod s, or s when that is 0), and the emitted batches one
\* after the other are the parts given, in their order.
C27_SplitBySize ==
    (outType = "split" /\ procErr = "nil") =>
        LET len == Len(Given)
            s == conf.size
        IN /\ Len(msgs) = (len + s - 1) \div s
           /\ \A i \in 1..Len(msgs) :
                 Len(Emitted[i]) =
                     IF i < Len(msgs) \/ len % s = 0 THEN s ELSE len % s
           /\ Flat(Emitted, 1) = Given

\* C27: a batch of five parts was split with target size 2, into two batches
\* of two and one of one.
C27_Witness ==
    /\ outType = "split"
    /\ procErr = "nil"
    /\ Len(Given) = 5
    /\ conf.size = 2
    /\ Len(msgs) = 3

(***************************************************************************)
(* The connection of the drivers: Connect against concurrent Write calls.   *)
(***************************************************************************)

\* The client a Write call works on is nil or a client whose handshake
\* succeeded before Connect stored it into the field.
ObservedShaken(w) == wk[w].client \in {Nil} \cup shaken

\* C31: for the RedisHash, RedisList and MQTT drivers, at most one Connect
\* call is inside the section connMut.Lock guards at a time, and the client
\* a concurrent Write read from the field is nil or a client that Connect
\* stored after its ping or connect succeeded.
C31_ConnectExclusiveAndShaken ==
    outType \in DriverTypes =>
        /\ inConnect <= 1
        /\ \A w \in Workers : ObservedShaken(w)

\* The workers that are storing into the field client while they hold
\* connMut.RLock, the lock that excludes neither readers nor one another.
StoringUnderRLock == {w \in Workers : wk[w].pc = "clearing"}

\* C32: in the MQTT driver with several concurrent Write calls, every store
\* into the field client is made by a holder of the exclusive lock
\* connMut.Lock: no worker stores into it under the read lock, and so no
\* worker reads the field while a store into it is under way.
C32_FieldStoresUnderLock ==
    outType = "mqtt" =>
        /\ StoringUnderRLock = {}
        /\ client # Torn
        /\ \A w \in Workers : wk[w].client # Torn

\* What C33 asks of the step in which a Write of a Redis driver that failed
\* on its client returns: the step closes and clears no client but that one.
OnlyFailedClientStep ==
    outType \in {"redis_list", "redis_hash"} =>
        \A w \in Workers :
            (wk[w].pc = "clear" /\ wk'[w].pc = "idle")
                => /\ (open \ open') \subseteq {wk[w].client}
                   /\ (client' # client => client = wk[w].client)

\* C33: in the RedisHash and RedisList drivers with concurrent workers, a
\* Write that fails on the client it read before a reconnect closes and
\* clears only that client, never a newer client that a later successful
\* Connect stored into the field.
C33_FailedWriteSparesNewerClient == [][OnlyFailedClientStep]_vars

\* C34: RedisList.WriteWithContext pushes every part i of a batch to the
\* list whose key is the key expression evaluated for part i of that batch,
\* for batches of one part and for batches of more than one part alike.
C34_EachPartToItsOwnKey ==
    outType = "redis_list" =>
        \A w \in Workers :
            \A i \in 1..Len(wk[w].keys) : wk[w].keys[i] = KeyStr(i)

(***************************************************************************)
(* The constructor of the fan-out broker.                                  *)
(***************************************************************************)

\* C35: if the Consume of a child returns an error, newFanOutOutputBroker
\* returns that error and no broker, and no child is left bound to a channel
\* the broker made and that will never be written or closed: the children
\* bound before the failing one are not left started.
C35_FailedCtorLeavesNoChildBound ==
    (outType = "fan_out" /\ constructed = "error") => bound = {}

====
